---- MODULE Spec2Model ----
(***************************************************************************)
(* Model of the YAKE keyword extraction server (yake_server.py): the two   *)
(* Flask routes GET /health and POST /extract, the request handlers as     *)
(* line-by-line state machines with their Python locals, and the YAKE      *)
(* library as an opaque capability that either returns a list of           *)
(* (keyword, score) tuples or raises.                                      *)
(***************************************************************************)
EXTENDS Integers, Sequences, FiniteSets, TLC

VARIABLES
  pc,            \* per handler: the line of yake_server.py it is about to run
  route,         \* per handler: "health" | "extract" | "none"
  body,          \* per handler: the raw request body as received
  data,          \* local `data`            (line 70)
  text,          \* local `text`            (line 77)
  max_keywords,  \* local `max_keywords`    (line 86)
  params,        \* locals language, window_size, dedup_threshold, dedup_algo, top_n
  kw_extractor,  \* local `kw_extractor`    (line 93)
  raw_keywords,  \* local `raw_keywords`    (line 105)
  resp,          \* the (body, status) pair the view function returns
  ctorCalls,     \* per request: calls of yake.KeywordExtractor(...)
  extractCalls,  \* per request: calls of kw_extractor.extract_keywords(text)
  capText,       \* per request: the text the capability was last called with
  served         \* status codes of the /extract responses the process has sent

vars == <<pc, route, body, data, text, max_keywords, params, kw_extractor,
          raw_keywords, resp, ctorCalls, extractCalls, capText, served>>

-----------------------------------------------------------------------------
(* Bounds of the model *)

\* number of concurrently running handler threads
NumHandlers == 2
\* longest list the capability returns
MaxOut == 11
\* longest list the capability returns where handlers interleave or the
\* optional keys vary
ShortOut == 2

Handlers == 1..NumHandlers

-----------------------------------------------------------------------------
(* Python / JSON values.  Every kind has its own field name so that values *)
(* of different kinds are different records.                               *)

JNull == [kind |-> "null"]
JBool(b) == [kind |-> "bool", bool |-> b]
JInt(i) == [kind |-> "int", int |-> i]
JFloat(m) == [kind |-> "float", milli |-> m]
JStr(s) == [kind |-> "str", chars |-> s]
JList(xs) == [kind |-> "list", items |-> xs]
JDict(f) == [kind |-> "dict", fields |-> f]

\* a local that has not been assigned yet
Unset == [kind |-> "unset"]

Min(a, b) == IF a < b THEN a ELSE b
Max(a, b) == IF a > b THEN a ELSE b

\* Python truth value of a JSON value: `not data`, `not text`
Truthy(v) ==
  CASE v.kind = "null" -> FALSE
    [] v.kind = "bool" -> v.bool
    [] v.kind = "int" -> v.int # 0
    [] v.kind = "float" -> v.milli # 0
    [] v.kind = "str" -> Len(v.chars) > 0
    [] v.kind = "list" -> Len(v.items) > 0
    [] v.kind = "dict" -> DOMAIN v.fields # {}

\* isinstance(v, str)
IsStr(v) == v.kind = "str"

\* the key 'text', as a dict key and as the characters of the str 'text'
TextKey == "text"
TextKeyChars == <<"t", "e", "x", "t">>

\* sub is a contiguous slice of s: Python `sub in s` on two str
IsSubstring(sub, s) ==
  \E i \in 0..(Len(s) - Len(sub)) : SubSeq(s, i + 1, i + Len(sub)) = sub

\* `'text' in v` is defined for containers only; on int, float, bool it
\* raises TypeError (None never gets here: `not data` short-circuits)
SupportsIn(v) == v.kind \in {"str", "list", "dict"}

\* `'text' in v` for a container v
TextIn(v) ==
  CASE v.kind = "dict" -> TextKey \in DOMAIN v.fields
    [] v.kind = "list" -> \E i \in 1..Len(v.items) : v.items[i] = JStr(TextKeyChars)
    [] v.kind = "str" -> IsSubstring(TextKeyChars, v.chars)

\* variant of DictGet: `data.get(key) or default`-style, None counts as absent
DictGetNoneAsAbsent(d, key, default) ==
  IF key \in DOMAIN d.fields /\ d.fields[key] # JNull
  THEN d.fields[key]
  ELSE default

\* dict.get(key, default): the default only when the key is absent
DictGet(d, key, default) ==
  IF key \in DOMAIN d.fields THEN d.fields[key] ELSE default

\* exceptions, with str(e) as msg
Exc(type, msg) == [exc |-> type, msg |-> msg]
BadRequestExc ==
  Exc("BadRequest", "400 Bad Request: Failed to decode JSON object")
NotIterableExc == Exc("TypeError", "argument of type is not iterable")
BadIndexExc == Exc("TypeError", "indices must be integers")
BadSliceExc ==
  Exc("TypeError", "slice indices must be integers or None or have an __index__ method")

-----------------------------------------------------------------------------
(* Module constants, lines 26-32 *)

DEFAULT_LANGUAGE == JStr(<<"e", "n">>)
DEFAULT_MAX_KEYWORDS == 10
DEFAULT_DEDUPLICATION_THRESHOLD == JFloat(900)
DEFAULT_DEDUPLICATION_ALGO == JStr(<<"s", "e", "q", "m">>)
DEFAULT_WINDOW_SIZE == 1
DEFAULT_TOP_N == 10

\* the fixed body of GET /health, lines 38-42
HealthPayload ==
  [status |-> "healthy",
   service |-> "YAKE Keyword Extraction Server",
   version |-> "1.0.0"]

\* jsonify(payload) with Flask's default status, or `jsonify(...), status`
Response(status, payload) == [status |-> status, json |-> payload]

ErrorBody(msg) == [error |-> msg]

MissingTextMsg == "Missing required field: text"
InvalidTextMsg == "Invalid text field: must be non-empty string"

-----------------------------------------------------------------------------
(* The extraction capability (the yake library): opaque to the server.     *)
(* It returns a list of (keyword, score) tuples or raises.                 *)

\* a score as the library computes it
RawScore(m) == [num |-> "float64", milli |-> m]

\* float(score), line 111
Float(score) == JFloat(score.milli)

\* one result list of length n for text t: keywords are taken from t in turn
\* (so they repeat once n exceeds the length of t), scores ascend
\* (lower = more relevant)
Out(t, n) == [i \in 1..n |-> <<JStr(<<t[((i - 1) % Len(t)) + 1]>>), RawScore(i)>>]

\* what kw_extractor.extract_keywords(t) may return, up to length maxLen
Outputs(t, maxLen) == {Out(t, n) : n \in 0..maxLen}

\* what the library may raise
CtorExc == Exc("ValueError", "unsupported extractor parameters")
ExtractExc == Exc("RuntimeError", "keyword extraction failed")

-----------------------------------------------------------------------------
(* The view function extract_keywords, lines 69-124, as pure steps *)

\* line 70: request.json; a body that does not decode raises BadRequest
GetJson(b) ==
  IF b.wellformed THEN [ok |-> TRUE, val |-> b.doc]
  ELSE [ok |-> FALSE, exc |-> BadRequestExc]

\* line 72: `not data or 'text' not in data`
\* "raise" when the `in` test raises, else "missing" or "present"
CheckData(d) ==
  IF ~Truthy(d) THEN "missing"
  ELSE IF ~SupportsIn(d) THEN "raise"
  ELSE IF ~TextIn(d) THEN "missing"
  ELSE "present"

\* line 77: data['text'] is defined on a dict only
CanIndexByKey(d) == d.kind = "dict"

\* variant of InvalidText: the isinstance test is left out
InvalidTextTruthOnly(t) == ~Truthy(t)

\* line 79: `not text or not isinstance(text, str)`
InvalidText(t) == ~Truthy(t) \/ ~IsStr(t)

\* variant of ResolveParams: one all-or-nothing substitution, the supplied
\* values are used only when every key is supplied
ResolveParamsAllOrNothing(d) ==
  IF {"language", "deduplicationThreshold", "deduplicationAlgo", "windowSize",
      "topN"} \subseteq DOMAIN d.fields
  THEN [language |-> d.fields["language"],
        dedup_threshold |-> d.fields["deduplicationThreshold"],
        dedup_algo |-> d.fields["deduplicationAlgo"],
        window_size |-> d.fields["windowSize"],
        top_n |-> d.fields["topN"]]
  ELSE [language |-> DEFAULT_LANGUAGE,
        dedup_threshold |-> DEFAULT_DEDUPLICATION_THRESHOLD,
        dedup_algo |-> DEFAULT_DEDUPLICATION_ALGO,
        window_size |-> JInt(DEFAULT_WINDOW_SIZE),
        top_n |-> JInt(DEFAULT_TOP_N)]

\* lines 85, 87-90: the locals passed on to the library
ResolveParams(d) ==
  [language |-> DictGet(d, "language", DEFAULT_LANGUAGE),
   dedup_threshold |->
     DictGet(d, "deduplicationThreshold", DEFAULT_DEDUPLICATION_THRESHOLD),
   dedup_algo |-> DictGet(d, "deduplicationAlgo", DEFAULT_DEDUPLICATION_ALGO),
   window_size |-> DictGet(d, "windowSize", JInt(DEFAULT_WINDOW_SIZE)),
   top_n |-> DictGet(d, "topN", JInt(DEFAULT_TOP_N))]

\* line 86
ResolveMaxKeywords(d) == DictGet(d, "maxKeywords", JInt(DEFAULT_MAX_KEYWORDS))

\* lines 93-100: the keyword arguments of yake.KeywordExtractor
ExtractorArgs(p) ==
  [lan |-> p.language, n |-> p.window_size, dedupLim |-> p.dedup_threshold,
   dedupFunc |-> p.dedup_algo, top |-> p.top_n]

\* line 113: a slice bound must be None or have __index__ (int, bool)
ValidSliceBound(mk) == mk.kind \in {"null", "int", "bool"}

\* variant of SliceEnd: the bound is taken as an inclusive index
SliceEndInclusive(len, k) == IF k < 0 THEN Max(len + k, 0) ELSE Min(k + 1, len)

\* number of items of seq[:k] for an integer k: a negative k counts from the end
SliceEnd(len, k) == IF k < 0 THEN Max(len + k, 0) ELSE Min(k, len)

\* line 113: raw_keywords[:max_keywords]
SliceTo(seq, mk) ==
  CASE mk.kind = "null" -> seq
    [] mk.kind = "int" -> SubSeq(seq, 1, SliceEnd(Len(seq), mk.int))
    [] mk.kind = "bool" ->
         SubSeq(seq, 1, SliceEnd(Len(seq), IF mk.bool THEN 1 ELSE 0))

\* lines 108-114: the list comprehension
FormatKeywords(raw, mk) ==
  LET cut == SliceTo(raw, mk)
  IN [i \in 1..Len(cut) |-> [text |-> cut[i][1], score |-> Float(cut[i][2])]]

\* lines 116-119
SuccessResponse(keywords) ==
  Response(200, [keywords |-> keywords, count |-> Len(keywords)])

\* lines 121-124: except Exception as e
ErrorResponse(e) == Response(500, ErrorBody(e.msg))

\* lines 73-75 and 80-82
ValidationResponse(msg) == Response(400, ErrorBody(msg))

\* lines 38-42
HealthResponse == Response(200, HealthPayload)

\* extract_keywords, lines 69-124, run from start to end on body b, where the
\* library's constructor gave `extractor` and its extract call gave `raw`
\* (Unset when it raised)
HandleAlone(b, extractor, raw) ==
  LET got == GetJson(b)
  IN IF ~got.ok THEN ErrorResponse(got.exc)
     ELSE LET d == got.val
              c == CheckData(d)
          IN IF c = "missing" THEN ValidationResponse(MissingTextMsg)
             ELSE IF c = "raise" THEN ErrorResponse(NotIterableExc)
             ELSE IF ~CanIndexByKey(d) THEN ErrorResponse(BadIndexExc)
             ELSE IF InvalidText(d.fields[TextKey])
               THEN ValidationResponse(InvalidTextMsg)
             ELSE IF extractor = Unset THEN ErrorResponse(CtorExc)
             ELSE IF raw = Unset THEN ErrorResponse(ExtractExc)
             ELSE IF ValidSliceBound(ResolveMaxKeywords(d))
               THEN SuccessResponse(FormatKeywords(raw.items, ResolveMaxKeywords(d)))
             ELSE ErrorResponse(BadSliceExc)

-----------------------------------------------------------------------------
(* Request bodies the clients send *)

WellFormed(doc) == [wellformed |-> TRUE, doc |-> doc]
Malformed == [wellformed |-> FALSE, doc |-> JNull]
NoBody == [wellformed |-> FALSE, doc |-> Unset]

TextA == <<"a", "b">>
TextB == <<"c", "d", "e">>

OptKeys ==
  {"language", "maxKeywords", "deduplicationThreshold", "deduplicationAlgo",
   "windowSize", "topN"}

\* the documented default of an optional key, as a client writes it out
\* (the docstring of extract_keywords; "seqm" for deduplicationAlgo)
DefaultOf(k) ==
  CASE k = "language" -> JStr(<<"e", "n">>)
    [] k = "maxKeywords" -> JInt(10)
    [] k = "deduplicationThreshold" -> JFloat(900)
    [] k = "deduplicationAlgo" -> JStr(<<"s", "e", "q", "m">>)
    [] k = "windowSize" -> JInt(1)
    [] k = "topN" -> JInt(10)

\* a value of an optional key that differs from its default
OtherOf(k) ==
  CASE k = "language" -> JStr(<<"f", "r">>)
    [] k = "maxKeywords" -> JInt(3)
    [] k = "deduplicationThreshold" -> JFloat(500)
    [] k = "deduplicationAlgo" -> JStr(<<"j", "a", "r", "o">>)
    [] k = "windowSize" -> JInt(2)
    [] k = "topN" -> JInt(5)

\* how a client may fill an optional key
Choices(k) ==
  IF k \in {"language", "maxKeywords"}
  THEN {"absent", "default", "other", "null"}
  ELSE {"absent", "default", "other"}

ChoiceValue(k, c) ==
  CASE c = "default" -> DefaultOf(k)
    [] c = "other" -> OtherOf(k)
    [] c = "null" -> JNull

\* a JSON object with text t and the optional keys filled as c says
ObjectOf(t, c) ==
  JDict([k \in {TextKey} \cup {o \in OptKeys : c[o] # "absent"} |->
           IF k = TextKey THEN t ELSE ChoiceValue(k, c[k])])

\* a JSON object with text t and maxKeywords mk only
WithMaxKeywords(t, mk) ==
  JDict([k \in {TextKey, "maxKeywords"} |-> IF k = TextKey THEN t ELSE mk])

\* the optional keys alone, without text
WithoutText(c) ==
  JDict([k \in {o \in OptKeys : c[o] # "absent"} |-> ChoiceValue(k, c[k])])

AllAbsent == [k \in OptKeys |-> "absent"]
OnlyLanguage == [AllAbsent EXCEPT !["language"] = "other"]
OnlyMaxKeywords == [AllAbsent EXCEPT !["maxKeywords"] = "other"]

\* every subset of the optional keys, present with several values
SubsetBodies ==
  {WellFormed(ObjectOf(JStr(TextA), c)) :
     c \in {f \in [OptKeys -> {"absent", "default", "other", "null"}] :
              \A k \in OptKeys : f[k] \in Choices(k)}}

\* values of maxKeywords: integers around 0 and around the default,
\* and values that are no integers
MaxKeywordsValues ==
  {JInt(k) : k \in (0 - (MaxOut + 1))..(MaxOut + 1)}
    \cup {JNull, JBool(TRUE), JBool(FALSE), JFloat(2500), JStr(<<"5">>),
          JList(<<>>)}

MaxKeywordsBodies ==
  {WellFormed(WithMaxKeywords(JStr(t), mk)) :
     t \in {TextA, TextB}, mk \in MaxKeywordsValues}

\* values of the text key
TextValues ==
  {JStr(<<>>), JStr(TextA), JStr(TextKeyChars), JNull, JInt(0), JInt(5),
   JFloat(0), JFloat(1500), JBool(TRUE), JBool(FALSE), JList(<<>>),
   JList(<<JStr(TextA)>>), JDict(<<>>), JDict([k \in {TextKey} |-> JStr(TextA)])}

TextBodies ==
  {WellFormed(ObjectOf(t, c)) :
     t \in TextValues, c \in {AllAbsent, OnlyLanguage, OnlyMaxKeywords}}
    \cup {WellFormed(WithoutText(c)) :
            c \in {AllAbsent, OnlyLanguage, OnlyMaxKeywords}}
    \cup {WellFormed(JDict([k \in {"other"} |-> JStr(TextA)]))}

\* bodies that are no JSON object
NonObjectBodies ==
  {Malformed} \cup
  {WellFormed(v) :
     v \in {JNull, JInt(0), JInt(5), JFloat(0), JFloat(1500), JBool(TRUE),
            JBool(FALSE), JStr(<<>>), JStr(TextA), JStr(TextKeyChars),
            JStr(TextA \o TextKeyChars \o TextB), JList(<<>>),
            JList(<<JInt(1)>>), JList(<<JStr(TextKeyChars)>>),
            JList(<<JStr(TextA), JStr(TextKeyChars)>>)}}

\* bodies of the one-handler specification
SeqBodies == MaxKeywordsBodies \cup TextBodies \cup NonObjectBodies

\* bodies of the specification with interleaving handlers
ConcBodies ==
  {WellFormed(ObjectOf(JStr(TextA), AllAbsent)),
   WellFormed(WithMaxKeywords(JStr(TextB), JInt(1))),
   WellFormed(WithoutText(OnlyLanguage)),
   Malformed}

-----------------------------------------------------------------------------
(* The state machine: one handler thread per request in flight *)

Init ==
  /\ pc = [h \in Handlers |-> "idle"]
  /\ route = [h \in Handlers |-> "none"]
  /\ body = [h \in Handlers |-> NoBody]
  /\ data = [h \in Handlers |-> Unset]
  /\ text = [h \in Handlers |-> Unset]
  /\ max_keywords = [h \in Handlers |-> Unset]
  /\ params = [h \in Handlers |-> Unset]
  /\ kw_extractor = [h \in Handlers |-> Unset]
  /\ raw_keywords = [h \in Handlers |-> Unset]
  /\ resp = [h \in Handlers |-> Unset]
  /\ ctorCalls = [h \in Handlers |-> 0]
  /\ extractCalls = [h \in Handlers |-> 0]
  /\ capText = [h \in Handlers |-> Unset]
  /\ served = {}

\* the view function returns r
Return(h, r) ==
  /\ resp' = [resp EXCEPT ![h] = r]
  /\ pc' = [pc EXCEPT ![h] = "done"]

\* an exception reaches `except Exception as e`, lines 121-124
Raise(h, e) == Return(h, ErrorResponse(e))

\* Flask dispatches GET /health to health()
RecvHealth(h) ==
  /\ pc[h] = "idle"
  /\ pc' = [pc EXCEPT ![h] = "l38"]
  /\ route' = [route EXCEPT ![h] = "health"]
  /\ UNCHANGED <<body, data, text, max_keywords, params, kw_extractor,
                 raw_keywords, resp, ctorCalls, extractCalls, capText, served>>

\* variant of Health: the payload depends on what was served before
HealthAfterFailure(h) ==
  /\ pc[h] = "l38"
  /\ Return(h, IF 500 \in served
               THEN Response(200, [HealthPayload EXCEPT !.status = "degraded"])
               ELSE HealthResponse)
  /\ UNCHANGED <<route, body, data, text, max_keywords, params, kw_extractor,
                 raw_keywords, ctorCalls, extractCalls, capText, served>>

\* health(), lines 36-42
Health(h) ==
  /\ pc[h] = "l38"
  /\ Return(h, HealthResponse)
  /\ UNCHANGED <<route, body, data, text, max_keywords, params, kw_extractor,
                 raw_keywords, ctorCalls, extractCalls, capText, served>>

\* Flask dispatches POST /extract, with a body of bodies, to extract_keywords()
RecvExtract(h, bodies) ==
  /\ pc[h] = "idle"
  /\ pc' = [pc EXCEPT ![h] = "l70"]
  /\ route' = [route EXCEPT ![h] = "extract"]
  /\ \E b \in bodies : body' = [body EXCEPT ![h] = b]
  /\ UNCHANGED <<data, text, max_keywords, params, kw_extractor,
                 raw_keywords, resp, ctorCalls, extractCalls, capText, served>>

\* line 70: data = request.json
ParseBody(h) ==
  /\ pc[h] = "l70"
  /\ LET got == GetJson(body[h])
     IN IF got.ok
        THEN /\ data' = [data EXCEPT ![h] = got.val]
             /\ pc' = [pc EXCEPT ![h] = "l72"]
             /\ UNCHANGED resp
        ELSE /\ Raise(h, got.exc)
             /\ UNCHANGED data
  /\ UNCHANGED <<route, body, text, max_keywords, params, kw_extractor,
                 raw_keywords, ctorCalls, extractCalls, capText, served>>

\* lines 72-75: if not data or 'text' not in data: return ..., 400
CheckTextPresent(h) ==
  /\ pc[h] = "l72"
  /\ LET c == CheckData(data[h])
     IN CASE c = "missing" -> Return(h, ValidationResponse(MissingTextMsg))
          [] c = "raise" -> Raise(h, NotIterableExc)
          [] c = "present" -> /\ pc' = [pc EXCEPT ![h] = "l77"]
                              /\ UNCHANGED resp
  /\ UNCHANGED <<route, body, data, text, max_keywords, params, kw_extractor,
                 raw_keywords, ctorCalls, extractCalls, capText, served>>

\* line 77: text = data['text']
ReadText(h) ==
  /\ pc[h] = "l77"
  /\ IF CanIndexByKey(data[h])
     THEN /\ text' = [text EXCEPT ![h] = data[h].fields[TextKey]]
          /\ pc' = [pc EXCEPT ![h] = "l79"]
          /\ UNCHANGED resp
     ELSE /\ Raise(h, BadIndexExc)
          /\ UNCHANGED text
  /\ UNCHANGED <<route, body, data, max_keywords, params, kw_extractor,
                 raw_keywords, ctorCalls, extractCalls, capText, served>>

\* lines 79-82: if not text or not isinstance(text, str): return ..., 400
CheckTextValid(h) ==
  /\ pc[h] = "l79"
  /\ IF InvalidText(text[h])
     THEN Return(h, ValidationResponse(InvalidTextMsg))
     ELSE /\ pc' = [pc EXCEPT ![h] = "l85"]
          /\ UNCHANGED resp
  /\ UNCHANGED <<route, body, data, text, max_keywords, params, kw_extractor,
                 raw_keywords, ctorCalls, extractCalls, capText, served>>

\* lines 85-90: the six data.get(key, default)
ReadParams(h) ==
  /\ pc[h] = "l85"
  /\ params' = [params EXCEPT ![h] = ResolveParams(data[h])]
  /\ max_keywords' = [max_keywords EXCEPT ![h] = ResolveMaxKeywords(data[h])]
  /\ pc' = [pc EXCEPT ![h] = "l93"]
  /\ UNCHANGED <<route, body, data, text, kw_extractor, raw_keywords, resp,
                 ctorCalls, extractCalls, capText, served>>

\* variant of Construct: a failed construction is tried once more
ConstructWithRetry(h) ==
  /\ pc[h] = "l93"
  /\ ctorCalls' = [ctorCalls EXCEPT ![h] = @ + 1]
  /\ \/ /\ kw_extractor' = [kw_extractor EXCEPT ![h] = ExtractorArgs(params[h])]
        /\ pc' = [pc EXCEPT ![h] = "l105"]
        /\ UNCHANGED resp
     \/ /\ ctorCalls[h] = 0
        /\ UNCHANGED <<pc, resp, kw_extractor>>
     \/ /\ ctorCalls[h] >= 1
        /\ Raise(h, CtorExc)
        /\ UNCHANGED kw_extractor
  /\ UNCHANGED <<route, body, data, text, max_keywords, params, raw_keywords,
                 extractCalls, capText, served>>

\* lines 93-100: kw_extractor = yake.KeywordExtractor(...); the library
\* accepts the arguments or raises
Construct(h) ==
  /\ pc[h] = "l93"
  /\ ctorCalls' = [ctorCalls EXCEPT ![h] = @ + 1]
  /\ \/ /\ kw_extractor' = [kw_extractor EXCEPT ![h] = ExtractorArgs(params[h])]
        /\ pc' = [pc EXCEPT ![h] = "l105"]
        /\ UNCHANGED resp
     \/ /\ Raise(h, CtorExc)
        /\ UNCHANGED kw_extractor
  /\ UNCHANGED <<route, body, data, text, max_keywords, params, raw_keywords,
                 extractCalls, capText, served>>

\* variant of ExtractArg: text is a module-level global that the handler
\* that assigned it last has overwritten
ExtractArgShared(h) ==
  LET others == {g \in Handlers : g # h /\ pc[g] \in {"l79", "l85", "l93", "l105"}
                                  /\ text[g].kind = "str" /\ text[g].chars # <<>>}
  IN IF others = {} THEN text[h] ELSE text[CHOOSE g \in others : TRUE]

\* the argument of kw_extractor.extract_keywords(...), line 105
ExtractArg(h) == text[h]

\* line 105: raw_keywords = kw_extractor.extract_keywords(text); the library
\* returns a list of at most maxLen tuples or raises
Extract(h, maxLen) ==
  /\ pc[h] = "l105"
  /\ extractCalls' = [extractCalls EXCEPT ![h] = @ + 1]
  /\ capText' = [capText EXCEPT ![h] = ExtractArg(h)]
  /\ \/ /\ \E out \in Outputs(ExtractArg(h).chars, maxLen) :
             raw_keywords' = [raw_keywords EXCEPT ![h] = JList(out)]
        /\ pc' = [pc EXCEPT ![h] = "l108"]
        /\ UNCHANGED resp
     \/ /\ Raise(h, ExtractExc)
        /\ UNCHANGED raw_keywords
  /\ UNCHANGED <<route, body, data, text, max_keywords, params, kw_extractor,
                 ctorCalls, served>>

\* lines 108-119: slice, format and return; a bad slice bound raises
Shape(h) ==
  /\ pc[h] = "l108"
  /\ IF ValidSliceBound(max_keywords[h])
     THEN Return(h, SuccessResponse(FormatKeywords(raw_keywords[h].items, max_keywords[h])))
     ELSE Raise(h, BadSliceExc)
  /\ UNCHANGED <<route, body, data, text, max_keywords, params, kw_extractor,
                 raw_keywords, ctorCalls, extractCalls, capText, served>>

\* the response is sent; the request context and the locals are dropped
Reply(h) ==
  /\ pc[h] = "done"
  /\ served' = IF route[h] = "extract" THEN served \cup {resp[h].status} ELSE served
  /\ pc' = [pc EXCEPT ![h] = "idle"]
  /\ route' = [route EXCEPT ![h] = "none"]
  /\ body' = [body EXCEPT ![h] = NoBody]
  /\ data' = [data EXCEPT ![h] = Unset]
  /\ text' = [text EXCEPT ![h] = Unset]
  /\ max_keywords' = [max_keywords EXCEPT ![h] = Unset]
  /\ params' = [params EXCEPT ![h] = Unset]
  /\ kw_extractor' = [kw_extractor EXCEPT ![h] = Unset]
  /\ raw_keywords' = [raw_keywords EXCEPT ![h] = Unset]
  /\ resp' = [resp EXCEPT ![h] = Unset]
  /\ ctorCalls' = [ctorCalls EXCEPT ![h] = 0]
  /\ extractCalls' = [extractCalls EXCEPT ![h] = 0]
  /\ capText' = [capText EXCEPT ![h] = Unset]

\* requests are handled by concurrently running threads
Next ==
  \E h \in Handlers :
    \/ RecvHealth(h)
    \/ Health(h)
    \/ RecvExtract(h, ConcBodies)
    \/ ParseBody(h)
    \/ CheckTextPresent(h)
    \/ ReadText(h)
    \/ CheckTextValid(h)
    \/ ReadParams(h)
    \/ Construct(h)
    \/ Extract(h, ShortOut)
    \/ Shape(h)
    \/ Reply(h)

Spec == Init /\ [][Next]_vars

\* requests are handled one at a time
NextSeq ==
  \/ RecvHealth(1)
  \/ Health(1)
  \/ RecvExtract(1, SeqBodies)
  \/ ParseBody(1)
  \/ CheckTextPresent(1)
  \/ ReadText(1)
  \/ CheckTextValid(1)
  \/ ReadParams(1)
  \/ Construct(1)
  \/ Extract(1, MaxOut)
  \/ Shape(1)
  \/ Reply(1)

SpecSeq == Init /\ [][NextSeq]_vars

\* requests are handled one at a time and fill the optional keys in every way
NextParams ==
  \/ RecvHealth(1)
  \/ Health(1)
  \/ RecvExtract(1, SubsetBodies)
  \/ ParseBody(1)
  \/ CheckTextPresent(1)
  \/ ReadText(1)
  \/ CheckTextValid(1)
  \/ ReadParams(1)
  \/ Construct(1)
  \/ Extract(1, ShortOut)
  \/ Shape(1)
  \/ Reply(1)

SpecParams == Init /\ [][NextParams]_vars

-----------------------------------------------------------------------------
(* What a request says, read off the body the client sent *)

\* handler h has finished a POST /extract and holds its response
Done(h) == pc[h] = "done" /\ route[h] = "extract"

\* the body is a JSON object
IsObject(h) == body[h].wellformed /\ body[h].doc.kind = "dict"

HasKey(h, k) == IsObject(h) /\ k \in DOMAIN body[h].doc.fields

Field(h, k) == body[h].doc.fields[k]

\* the request passes validation: an object whose text is a non-empty string
ValidRequest(h) ==
  /\ HasKey(h, "text")
  /\ Field(h, "text").kind = "str"
  /\ Field(h, "text").chars # <<>>

\* the capability was constructed and its extract call returned a list
CapabilityReturned(h) ==
  ctorCalls[h] = 1 /\ extractCalls[h] = 1 /\ raw_keywords[h] # Unset

\* the capability raised, in its constructor or in its extract call
CtorRaised(h) == ctorCalls[h] >= 1 /\ kw_extractor[h] = Unset
ExtractRaised(h) == extractCalls[h] >= 1 /\ raw_keywords[h] = Unset

\* the list the capability returned
Returned(h) == raw_keywords[h].items

\* the Keyword record of a (keyword, score) tuple of the capability
KeywordOf(pair) == [text |-> pair[1], score |-> JFloat(pair[2].milli)]

\* the response is a 200 whose keywords are the first m tuples the capability
\* returned, in its order, and whose count is m
IsFirst(h, m) ==
  /\ resp[h].status = 200
  /\ Len(resp[h].json.keywords) = m
  /\ resp[h].json.count = m
  /\ \A i \in 1..m : resp[h].json.keywords[i] = KeywordOf(Returned(h)[i])

-----------------------------------------------------------------------------
(* C1: whenever maxKeywords is an integer k <= 0 and the capability        *)
(* returns a list of any length, the response is a 200 with keywords = []  *)
(* and count = 0.  The code slices raw_keywords[:k], which for k < 0 drops *)
(* the last -k entries instead.                                            *)
C1_NonPositiveMaxKeywordsGivesEmpty ==
  \A h \in Handlers :
    (/\ Done(h)
     /\ ValidRequest(h)
     /\ HasKey(h, "maxKeywords")
     /\ Field(h, "maxKeywords").kind = "int"
     /\ Field(h, "maxKeywords").int <= 0
     /\ CapabilityReturned(h))
    => resp[h] = Response(200, [keywords |-> <<>>, count |-> 0])

(* C2: for a valid request whose maxKeywords is an integer k >= 0, or is   *)
(* omitted (k = 10), and a capability list of length n, the response is a  *)
(* 200 whose keywords are exactly the first min(k, n) entries of the list, *)
(* in order, duplicates kept, and count is the length of keywords.         *)
C2_TruncatesToFirstMin ==
  \A h \in Handlers :
    (/\ Done(h)
     /\ ValidRequest(h)
     /\ HasKey(h, "maxKeywords") =>
          (Field(h, "maxKeywords").kind = "int" /\ Field(h, "maxKeywords").int >= 0)
     /\ CapabilityReturned(h))
    => LET k == IF HasKey(h, "maxKeywords") THEN Field(h, "maxKeywords").int ELSE 10
           n == Len(Returned(h))
       IN IsFirst(h, IF k < n THEN k ELSE n)

\* maxKeywords omitted, 11 entries returned of which the first and third are
\* the same phrase: 10 are kept
C2_Witness ==
  /\ Done(1)
  /\ ValidRequest(1)
  /\ ~HasKey(1, "maxKeywords")
  /\ CapabilityReturned(1)
  /\ Len(Returned(1)) = 11
  /\ resp[1].status = 200
  /\ resp[1].json.count = 10
  /\ resp[1].json.keywords[1].text = resp[1].json.keywords[3].text

(* C3: a body that does not decode, or decodes to something that is no     *)
(* JSON object, is answered with the 400 'Missing required field: text'.   *)
(* The code answers 500 when request.json raises and when `'text' in data` *)
(* or data['text'] raise TypeError.                                        *)
C3_NonObjectIsMissingText ==
  \A h \in Handlers :
    (Done(h) /\ ~IsObject(h))
    => resp[h] = Response(400, [error |-> "Missing required field: text"])

(* C4: for a body that is a JSON object the response is a 400 exactly when *)
(* text is absent or is not a non-empty string; an absent text gives the   *)
(* 'Missing required field: text' message, a present text that is empty or *)
(* no string gives 'Invalid text field: must be non-empty string'; a       *)
(* non-empty string text never gives a 400, whatever the other fields.     *)
C4_ValidationOfText ==
  \A h \in Handlers :
    (Done(h) /\ IsObject(h))
    => /\ (resp[h].status = 400) <=> ~ValidRequest(h)
       /\ resp[h].status = 400 => resp[h].json.error # ""
       /\ ~HasKey(h, "text")
            => resp[h] = Response(400, [error |-> "Missing required field: text"])
       /\ (HasKey(h, "text") /\ ~ValidRequest(h))
            => resp[h] =
                 Response(400, [error |-> "Invalid text field: must be non-empty string"])

\* text is the number 5 and another field is present: 400, invalid text
C4_Witness ==
  /\ Done(1)
  /\ HasKey(1, "text")
  /\ Field(1, "text") = JInt(5)
  /\ HasKey(1, "language")
  /\ resp[1].status = 400
  /\ resp[1].json.error = "Invalid text field: must be non-empty string"

(* C5: every 500 of POST /extract is there because the capability raised,  *)
(* and carries the capability's message; whenever the capability returns   *)
(* the response is a 200.  The code also answers 500 when the body does    *)
(* not decode, when the body is no container, and when maxKeywords is no   *)
(* slice bound (after the capability returned).                            *)
C5_Only500IsCapabilityFailure ==
  \A h \in Handlers :
    Done(h)
    => /\ resp[h].status = 500
            => \/ CtorRaised(h) /\ resp[h].json.error = CtorExc.msg
               \/ ExtractRaised(h) /\ resp[h].json.error = ExtractExc.msg
       /\ CapabilityReturned(h) => resp[h].status = 200

(* C6: in one POST /extract the capability is invoked at most once:       *)
(* exactly once when validation passes, never when the request ends in a   *)
(* 400; when the capability raises, that is the response at once, with no  *)
(* second call.                                                            *)
C6_CapabilityInvokedAtMostOnce ==
  \A h \in Handlers :
    route[h] = "extract"
    => /\ ctorCalls[h] <= 1
       /\ extractCalls[h] <= ctorCalls[h]
       /\ (Done(h) /\ resp[h].status = 400)
            => (ctorCalls[h] = 0 /\ extractCalls[h] = 0)
       /\ (Done(h) /\ ValidRequest(h))
            => (ctorCalls[h] = 1 /\ (extractCalls[h] = 1 \/ CtorRaised(h)))
       /\ CtorRaised(h)
            => /\ Done(h)
               /\ extractCalls[h] = 0
               /\ resp[h] = Response(500, [error |-> CtorExc.msg])
       /\ ExtractRaised(h)
            => /\ Done(h)
               /\ resp[h] = Response(500, [error |-> ExtractExc.msg])

\* the extract call raised: one constructor call, one extract call, a 500
C6_Witness ==
  /\ Done(1)
  /\ ValidRequest(1)
  /\ ExtractRaised(1)
  /\ ctorCalls[1] = 1
  /\ extractCalls[1] = 1
  /\ resp[1].status = 500

\* the value a request resolves optional key k to
Resolved(h, k) == IF HasKey(h, k) THEN Field(h, k) ELSE DefaultOf(k)

\* every optional key is absent or written out at its default
OnlyDefaults(h) ==
  \A k \in OptKeys : HasKey(h, k) => Field(h, k) = DefaultOf(k)

(* C7: each parameter the capability is constructed with, and the          *)
(* truncation bound, is the supplied value when its key is present and its *)
(* default (en, 10, 0.9, seqm, 1, 10) when absent, whatever other keys are *)
(* present; so a request with text only and a request that writes out every*)
(* default give the capability the same parameters and the same bound.     *)
C7_DefaultsAreFieldIndependent ==
  \A h \in Handlers :
    (route[h] = "extract" /\ kw_extractor[h] # Unset)
    => /\ kw_extractor[h] =
            [lan |-> Resolved(h, "language"),
             n |-> Resolved(h, "windowSize"),
             dedupLim |-> Resolved(h, "deduplicationThreshold"),
             dedupFunc |-> Resolved(h, "deduplicationAlgo"),
             top |-> Resolved(h, "topN")]
       /\ max_keywords[h] = Resolved(h, "maxKeywords")
       /\ OnlyDefaults(h)
            => /\ kw_extractor[h] =
                    [lan |-> JStr(<<"e", "n">>), n |-> JInt(1),
                     dedupLim |-> JFloat(900),
                     dedupFunc |-> JStr(<<"s", "e", "q", "m">>),
                     top |-> JInt(10)]
               /\ max_keywords[h] = JInt(10)

\* language and topN supplied, the four other keys absent
C7_Witness ==
  /\ Done(1)
  /\ resp[1].status = 200
  /\ HasKey(1, "language")
  /\ HasKey(1, "topN")
  /\ \A k \in OptKeys \ {"language", "topN"} : ~HasKey(1, k)
  /\ kw_extractor[1].lan = JStr(<<"f", "r">>)
  /\ kw_extractor[1].top = JInt(5)
  /\ kw_extractor[1].n = JInt(1)
  /\ max_keywords[1] = JInt(10)

\* the characters of a keyword all occur in text t
MadeFrom(kw, t) ==
  \A i \in 1..Len(kw.chars) : \E j \in 1..Len(t.chars) : kw.chars[i] = t.chars[j]

(* C8: under any interleaving of handlers each response is computed from   *)
(* its own request only: it is what the request gives when handled alone   *)
(* with the same capability results, the capability was called with the    *)
(* request's own text and parameters, and every keyword returned comes     *)
(* from the request's own text.                                            *)
C8_HandlersAreIsolated ==
  \A h \in Handlers :
    Done(h)
    => /\ resp[h] = HandleAlone(body[h], kw_extractor[h], raw_keywords[h])
       /\ kw_extractor[h] # Unset
            => kw_extractor[h] = ExtractorArgs(ResolveParams(body[h].doc))
       /\ extractCalls[h] = 1 => capText[h] = Field(h, "text")
       /\ resp[h].status = 200
            => \A i \in 1..Len(resp[h].json.keywords) :
                 MadeFrom(resp[h].json.keywords[i].text, Field(h, "text"))

\* two handlers hold 200 responses for different texts at the same time
C8_Witness ==
  /\ Done(1)
  /\ Done(2)
  /\ ValidRequest(1)
  /\ ValidRequest(2)
  /\ Field(1, "text") # Field(2, "text")
  /\ resp[1].status = 200
  /\ resp[2].status = 200
  /\ resp[1].json.count >= 1
  /\ resp[2].json.count >= 1

(* C9: after any earlier responses, GET /health returns 200 with the fixed *)
(* payload (status 'healthy', the constant service and version strings);   *)
(* it reads no body and never calls the capability.                        *)
C9_HealthIsConstant ==
  \A h \in Handlers :
    (pc[h] = "done" /\ route[h] = "health")
    => /\ resp[h] =
            [status |-> 200,
             json |-> [status |-> "healthy",
                       service |-> "YAKE Keyword Extraction Server",
                       version |-> "1.0.0"]]
       /\ body[h] = NoBody
       /\ ctorCalls[h] = 0
       /\ extractCalls[h] = 0

\* a health response after a 200, a 400 and a 500 of /extract were sent
C9_Witness ==
  /\ pc[1] = "done"
  /\ route[1] = "health"
  /\ served = {200, 400, 500}

\* the local that optional key k is read into
LocalOf(h, k) ==
  CASE k = "language" -> params[h].language
    [] k = "maxKeywords" -> max_keywords[h]
    [] k = "deduplicationThreshold" -> params[h].dedup_threshold
    [] k = "deduplicationAlgo" -> params[h].dedup_algo
    [] k = "windowSize" -> params[h].window_size
    [] k = "topN" -> params[h].top_n

(* C10: an optional key that is present with null is not defaulted: null   *)
(* is passed on.  So a valid request whose maxKeywords is null is not      *)
(* truncated: when the capability returns n entries the response holds all *)
(* n, with count = n, also when n exceeds the default bound of 10.         *)
C10_NullIsNotDefaulted ==
  \A h \in Handlers :
    /\ (route[h] = "extract" /\ params[h] # Unset)
         => \A k \in OptKeys :
              (HasKey(h, k) /\ Field(h, k) = JNull) => LocalOf(h, k) = JNull
    /\ (/\ Done(h)
        /\ ValidRequest(h)
        /\ HasKey(h, "maxKeywords")
        /\ Field(h, "maxKeywords") = JNull
        /\ CapabilityReturned(h))
         => IsFirst(h, Len(Returned(h)))

\* maxKeywords null and 11 entries returned: all 11 are in the response
C10_Witness ==
  /\ Done(1)
  /\ ValidRequest(1)
  /\ HasKey(1, "maxKeywords")
  /\ Field(1, "maxKeywords") = JNull
  /\ CapabilityReturned(1)
  /\ Len(Returned(1)) = 11
  /\ resp[1].status = 200
  /\ resp[1].json.count = 11

====
